---- MODULE Spec2Model ----
(***************************************************************************)
(* Model of go-linux-serial: SerialReader (Open, WriteLine, ReadLine,      *)
(* ReadLinesLoop, Close) together with the parts of the operating system   *)
(* it talks to: the descriptor table, the tty line discipline of the       *)
(* device, the self-pipe, and the peer at the other end of the link.       *)
(*                                                                         *)
(* Threads: one reader thread (ReadLine / ReadLinesLoop are not meant to   *)
(* run concurrently with each other), a set of threads calling Close, a    *)
(* thread calling WriteLine, and the peer.                                 *)
(***************************************************************************)
EXTENDS Integers, Sequences, FiniteSets, TLC

\* ------------------------------------------------------------------ bounds
MaxStream == 2          \* bytes the peer sends in the concurrent model
MaxStreamLive == 1      \* bytes the peer sends in the model of eventual return
MaxStreamFraming == 4   \* bytes the peer sends in the framing model
MaxChunk == 2           \* longest single write of the peer
BufSize == 2            \* the 4096-byte scratch buffer, scaled down
MaxReaderCalls == 2     \* ReadLine / ReadLinesLoop invocations of the reader thread
MaxCloseCalls == 2      \* Close invocations, all closing threads together
MaxWrites == 1          \* WriteLine invocations
MaxFaults == 1          \* failures the operating system injects
MaxCalls == 6           \* callback invocations of one ReadLinesLoop run the model follows

Closers == {"c1", "c2"}

\* ------------------------------------------------------------ byte strings
\* "n" is line feed, "r" is carriage return, "a" is any other byte.
Byte == {"a", "n", "r"}
LF == <<"n">>
CRLF == <<"r", "n">>

RECURSIVE SeqsUpTo(_, _)
SeqsUpTo(S, n) ==
    IF n = 0 THEN {<<>>}
    ELSE LET shorter == SeqsUpTo(S, n - 1)
         IN  shorter \cup {Append(s, b) : s \in {t \in shorter : Len(t) = n - 1}, b \in S}

Chunks(S) == SeqsUpTo(S, MaxChunk) \ {<<>>}

Take(s, n) == SubSeq(s, 1, n)
Drop(s, n) == SubSeq(s, n + 1, Len(s))
Min(a, b) == IF a < b THEN a ELSE b

\* strings.Index: offset (from 0) of the first occurrence of d in s, or -1.
IsAt(s, d, i) == /\ i + Len(d) <= Len(s)
                 /\ \A j \in 1..Len(d) : s[i + j] = d[j]
\* Faulty variant: the offset of the last occurrence.
IndexLast(s, d) ==
    LET hits == {i \in 0..Len(s) : IsAt(s, d, i)}
    IN  IF hits = {} THEN -1
        ELSE CHOOSE i \in hits : \A k \in hits : i >= k
Index(s, d) ==
    LET hits == {i \in 0..Len(s) : IsAt(s, d, i)}
    IN  IF hits = {} THEN -1
        ELSE CHOOSE i \in hits : \A k \in hits : i <= k

\* ------------------------------------------------------- tty line discipline
\* Flags of a freshly opened Linux tty that matter for the byte stream.
DefaultTermios == {"ICRNL", "IXON", "OPOST", "ONLCR", "ECHO", "ICANON", "ISIG", "IEXTEN", "CS8", "B38400"}

\* Flags Open clears to reach raw mode (first: a faulty variant that forgets OPOST).
RawClearedKeepOPOST == {"IGNBRK", "BRKINT", "PARMRK", "ISTRIP", "INLCR", "IGNCR", "ICRNL", "IXON",
                        "ECHO", "ECHONL", "ICANON", "ISIG", "IEXTEN", "CSIZE", "PARENB"}
RawCleared == {"IGNBRK", "BRKINT", "PARMRK", "ISTRIP", "INLCR", "IGNCR", "ICRNL", "IXON",
               "OPOST",
               "ECHO", "ECHONL", "ICANON", "ISIG", "IEXTEN",
               "CSIZE", "PARENB"}

\* Output processing of the tty: with OPOST and ONLCR a line feed leaves as CR LF.
RECURSIVE TtyOut(_, _)
TtyOut(bytes, flags) ==
    IF bytes = <<>> THEN <<>>
    ELSE LET b == Head(bytes)
             out == IF b = "n" /\ {"OPOST", "ONLCR"} \subseteq flags THEN CRLF ELSE <<b>>
         IN  out \o TtyOut(Tail(bytes), flags)

\* Input processing of the tty: with ICRNL a carriage return arrives as line feed.
TtyIn(bytes, flags) ==
    [i \in 1..Len(bytes) |-> IF bytes[i] = "r" /\ "ICRNL" \in flags THEN "n" ELSE bytes[i]]

\* ---------------------------------------------------------------- state
Fds == {"fd", "pipeR", "pipeW"}

VARIABLES
    \* operating system and peer
    termios,     \* flags of the device
    fdOpen,      \* descriptor table: which descriptor numbers are open
    devBuf,      \* bytes queued in the device for the reader
    peerIn,      \* bytes the peer has observed
    peer,        \* "open", or how the device reports the closed peer
    pipeBuf,     \* bytes in the self-pipe
    faults,      \* failures injected so far
    sent,        \* bytes the peer has written so far
    \* the SerialReader
    obj,         \* "none" before Open, "open" after success, "failed" after an error
    openErr,     \* error returned by Open
    failedAt,    \* the step of Open the operating system made fail, or "none"
    config,      \* Config held by the SerialReader
    done,        \* TRUE when the done channel is closed
    closeOnce,   \* sync.Once: "fresh", "running", "done"
    fileClosed,  \* os.File's closed mark
    \* the reader thread
    rpc, rop, line, pfd, pollRef, rerr, rret, calls, consumed, rcalls, rAfterClose,
    \* the closing threads
    cpc, cerr, ccalls, closeReturned, closeErrs,
    \* the writing thread
    wcalls, wlast,
    \* history
    tlog,        \* teardown steps executed, in order
    sysBad       \* system calls issued on a released descriptor number

osVars == <<termios, fdOpen, devBuf, peerIn, peer, pipeBuf, faults, sent>>
objVars == <<obj, openErr, failedAt, config, done, closeOnce, fileClosed>>
rdVars == <<rpc, rop, line, pfd, pollRef, rerr, rret, calls, consumed, rcalls, rAfterClose>>
clVars == <<cpc, cerr, ccalls, closeReturned, closeErrs>>
wrVars == <<wcalls, wlast>>
histVars == <<tlog, sysBad>>
vars == <<osVars, objVars, rdVars, clVars, wrVars, histVars>>

\* A read call is under way on the reader thread.
ReaderActive == rpc \notin {"idle", "ret"}

NoEvents == [f \in {"fd", "pipeR"} |-> {}]
NoRet == [line |-> <<>>, err |-> "none"]
NoWrite == [payload |-> <<>>, newline |-> <<>>, err |-> "none", pre |-> <<>>, afterClose |-> FALSE,
            midLine |-> FALSE]

Init ==
    /\ termios = DefaultTermios
    /\ fdOpen = [f \in Fds |-> FALSE]
    /\ devBuf = <<>>
    /\ peerIn = <<>>
    /\ peer = "open"
    /\ pipeBuf = 0
    /\ faults = 0
    /\ sent = 0
    /\ obj = "none"
    /\ openErr = "nil"
    /\ failedAt = "none"
    /\ config = [Delimiter |-> <<>>, BaudRate |-> 0]
    /\ done = FALSE
    /\ closeOnce = "fresh"
    /\ fileClosed = FALSE
    /\ rpc = "idle"
    /\ rop = "none"
    /\ line = <<>>
    /\ pfd = NoEvents
    /\ pollRef = [f \in {"fd", "pipeR"} |-> FALSE]
    /\ rerr = "nil"
    /\ rret = NoRet
    /\ calls = <<>>
    /\ consumed = <<>>
    /\ rcalls = 0
    /\ rAfterClose = FALSE
    /\ cpc = [c \in Closers |-> "idle"]
    /\ cerr = [c \in Closers |-> "nil"]
    /\ ccalls = 0
    /\ closeReturned = 0
    /\ closeErrs = {}
    /\ wcalls = 0
    /\ wlast = NoWrite
    /\ tlog = <<>>
    /\ sysBad = {}

\* ------------------------------------------------------------------- Open
OpenSteps == {"open", "tcgets", "tcsets", "pipe"}
\* Faulty variant: both termios steps report under one prefix.
OpenErrorOneTermios(step) == CASE step = "open" -> "open failed"
                               [] step = "tcgets" -> "get termios"
                               [] step = "tcsets" -> "get termios"
                               [] step = "pipe" -> "pipe"
OpenError(step) == CASE step = "open" -> "open failed"
                     [] step = "tcgets" -> "get termios"
                     [] step = "tcsets" -> "set termios"
                     [] step = "pipe" -> "pipe"

\* Faulty variant: output post-processing is left on.
RawTermiosKeepOPOST(t) == (t \ RawClearedKeepOPOST) \cup {"CS8"}
RawTermios(t) == (t \ RawCleared) \cup {"CS8"}

\* Speed flags of the tty (the bits under unix.CBAUD), by the names of package unix.
CBAUD == {"B9600", "B19200", "B38400", "B57600", "B115200", "B230400"}

\* Faulty variant: 230400 is missing from the switch.
baudToUnixNo230400(baud) == CASE baud = 9600 -> "B9600"
                              [] baud = 19200 -> "B19200"
                              [] baud = 38400 -> "B38400"
                              [] baud = 57600 -> "B57600"
                              [] baud = 115200 -> "B115200"
                              [] OTHER -> "B115200"
baudToUnix(baud) == CASE baud = 9600 -> "B9600"
                      [] baud = 19200 -> "B19200"
                      [] baud = 38400 -> "B38400"
                      [] baud = 57600 -> "B57600"
                      [] baud = 115200 -> "B115200"
                      [] baud = 230400 -> "B230400"
                      [] OTHER -> "B115200"

\* termios.Cflag &^= CBAUD; termios.Cflag |= baud
SetSpeed(t, baud) == (t \ CBAUD) \cup {baudToUnix(baud)}

\* Open(cfg): failAt is the step the operating system makes fail, if any.
Open(delims, bauds) ==
    /\ obj = "none"
    /\ \E d \in delims, b \in bauds, failAt \in OpenSteps \cup {"none"} :
        /\ fdOpen' = [f \in Fds |->
                        IF f = "fd" THEN failAt # "open" ELSE failAt = "none"]
        /\ termios' = IF failAt \in {"open", "tcgets", "tcsets"} THEN termios
                      ELSE SetSpeed(RawTermios(termios), b)
        /\ failedAt' = failAt
        /\ IF failAt = "none"
           THEN /\ obj' = "open"
                /\ openErr' = "nil"
                /\ config' = [Delimiter |-> d, BaudRate |-> b]
           ELSE /\ obj' = "failed"
                /\ openErr' = OpenError(failAt)
                /\ UNCHANGED config
    /\ UNCHANGED <<devBuf, peerIn, peer, pipeBuf, faults, sent, done, closeOnce, fileClosed>>
    /\ UNCHANGED <<rdVars, clVars, wrVars, histVars>>

\* ------------------------------------------------------------------- peer
HupModes == {"HUP+IN", "HUP", "ERR"}

\* The peer writes a chunk; the tty queues it for the reader (and echoes it
\* back when ECHO is on).
PeerWrite(chunks, maxTotal) ==
    /\ obj = "open"
    /\ peer = "open"
    /\ \E chunk \in chunks :
        /\ sent + Len(chunk) <= maxTotal
        /\ sent' = sent + Len(chunk)
        /\ devBuf' = devBuf \o TtyIn(chunk, termios)
        /\ peerIn' = IF "ECHO" \in termios THEN peerIn \o chunk ELSE peerIn
    /\ UNCHANGED <<termios, fdOpen, peer, pipeBuf, faults>>
    /\ UNCHANGED <<objVars, rdVars, clVars, wrVars, histVars>>

\* The peer end of the link goes away; the device reports it in one of the
\* ways poll(2) can: readable + hang-up, hang-up only, or error.
PeerClose ==
    /\ obj = "open"
    /\ peer = "open"
    /\ \E m \in HupModes : peer' = m
    /\ UNCHANGED <<termios, fdOpen, devBuf, peerIn, pipeBuf, faults, sent>>
    /\ UNCHANGED <<objVars, rdVars, clVars, wrVars, histVars>>

\* ------------------------------------------------------------ poll(2)
\* Events the device reports to a poll that holds a reference to it.
DevEvents ==
    (IF devBuf # <<>> THEN {"POLLIN"} ELSE {})
    \cup (CASE peer = "open" -> {}
            [] peer = "HUP+IN" -> {"POLLIN", "POLLHUP"}
            [] peer = "HUP" -> {"POLLHUP"}
            [] peer = "ERR" -> {"POLLERR"})

\* Events of the read end of the self-pipe.
PipeEvents ==
    (IF pipeBuf > 0 THEN {"POLLIN"} ELSE {})
    \cup (IF ~fdOpen["pipeW"] THEN {"POLLHUP"} ELSE {})

\* A descriptor number that was not open when poll was entered yields POLLNVAL.
Revents(ref) ==
    [f \in {"fd", "pipeR"} |->
        IF ~ref[f] THEN {"POLLNVAL"}
        ELSE IF f = "fd" THEN DevEvents ELSE PipeEvents]

PollErrs == {"EINTR", "ENOMEM"}
ReadErrs == {"EIO"}

BadSys(call, fds) ==
    {[thread |-> "reader", call |-> call, fd |-> f, afterClose |-> rAfterClose] :
        f \in {g \in fds : ~fdOpen[g]}}

\* unix.Poll is entered on s.fd and s.pipeR.
PollEnter(op) ==
    /\ rop = op
    /\ rpc = "poll"
    /\ rpc' = "wait"
    /\ pollRef' = [f \in {"fd", "pipeR"} |-> fdOpen[f]]
    /\ sysBad' = sysBad \cup BadSys("poll", {"fd", "pipeR"})
    /\ UNCHANGED <<rop, line, pfd, rerr, rret, calls, consumed, rcalls, rAfterClose>>
    /\ UNCHANGED <<osVars, objVars, clVars, wrVars, tlog>>

\* Faulty variant: the wait watches the device only, not the self-pipe.
PollReturnDeviceOnly(op) ==
    /\ rop = op
    /\ rpc = "wait"
    /\ Revents(pollRef)["fd"] # {}
    /\ pfd' = [Revents(pollRef) EXCEPT !["pipeR"] = {}]
    /\ rpc' = "chk"
    /\ UNCHANGED <<rop, line, pollRef, rerr, rret, calls, consumed, rcalls, rAfterClose>>
    /\ UNCHANGED <<osVars, objVars, clVars, wrVars, histVars>>
\* unix.Poll returns as soon as one of the two descriptors has an event.
PollReturn(op) ==
    /\ rop = op
    /\ rpc = "wait"
    /\ \E f \in {"fd", "pipeR"} : Revents(pollRef)[f] # {}
    /\ pfd' = Revents(pollRef)
    /\ rpc' = "chk"
    /\ UNCHANGED <<rop, line, pollRef, rerr, rret, calls, consumed, rcalls, rAfterClose>>
    /\ UNCHANGED <<osVars, objVars, clVars, wrVars, histVars>>

\* ---------------------------------------------------------- ReadLinesLoop
RLL_Call ==
    /\ obj = "open"
    /\ rpc \in {"idle", "ret"}
    /\ rcalls < MaxReaderCalls
    /\ rcalls' = rcalls + 1
    /\ rop' = "ReadLinesLoop"
    /\ rpc' = "poll"
    /\ line' = <<>>
    /\ calls' = <<>>
    /\ consumed' = <<>>
    /\ rerr' = "nil"
    /\ rret' = NoRet
    /\ pfd' = NoEvents
    /\ rAfterClose' = (closeReturned > 0)
    /\ UNCHANGED pollRef
    /\ UNCHANGED <<osVars, objVars, clVars, wrVars, histVars>>

\* unix.Poll fails: onError(err); return.  An interrupted poll (EINTR) is a
\* failure like any other.
RLL_PollFail ==
    /\ rop = "ReadLinesLoop"
    /\ rpc = "wait"
    /\ faults < MaxFaults
    /\ faults' = faults + 1
    /\ \E e \in PollErrs : rerr' = e
    /\ rpc' = "onerr"
    /\ UNCHANGED <<rop, line, pfd, pollRef, rret, calls, consumed, rcalls, rAfterClose>>
    /\ UNCHANGED <<termios, fdOpen, devBuf, peerIn, peer, pipeBuf, sent>>
    /\ UNCHANGED <<objVars, clVars, wrVars, histVars>>

\* Faulty variant: the return after onError is missing.
RLL_OnErrorKeepGoing ==
    /\ rop = "ReadLinesLoop"
    /\ rpc = "onerr"
    /\ calls' = Append(calls, <<"onError", rerr>>)
    /\ rpc' = "poll"
    /\ UNCHANGED <<rop, line, pfd, pollRef, rerr, rret, consumed, rcalls, rAfterClose>>
    /\ UNCHANGED <<osVars, objVars, clVars, wrVars, histVars>>
\* onError(err); return
RLL_OnError ==
    /\ rop = "ReadLinesLoop"
    /\ rpc = "onerr"
    /\ calls' = Append(calls, <<"onError", rerr>>)
    /\ rpc' = "ret"
    /\ UNCHANGED <<rop, line, pfd, pollRef, rerr, rret, consumed, rcalls, rAfterClose>>
    /\ UNCHANGED <<osVars, objVars, clVars, wrVars, histVars>>

\* select { case <-s.done: return; default: } followed by the two tests of
\* revents, which read only what poll returned: the self-pipe is drained and
\* the loop returns, or the device is read, or the loop goes back to poll.
RLL_Check ==
    /\ rop = "ReadLinesLoop"
    /\ rpc = "chk"
    /\ IF done
       THEN /\ rpc' = "ret"
            /\ UNCHANGED <<pipeBuf, sysBad>>
       ELSE IF "POLLIN" \in pfd["pipeR"]
       THEN /\ rpc' = "ret"
            /\ pipeBuf' = IF fdOpen["pipeR"] /\ pipeBuf > 0 THEN pipeBuf - 1 ELSE pipeBuf
            /\ sysBad' = sysBad \cup BadSys("read", {"pipeR"})
       ELSE /\ rpc' = IF "POLLIN" \in pfd["fd"] THEN "read" ELSE "poll"
            /\ UNCHANGED <<pipeBuf, sysBad>>
    /\ UNCHANGED <<rop, line, pfd, pollRef, rerr, rret, calls, consumed, rcalls, rAfterClose>>
    /\ UNCHANGED <<termios, fdOpen, devBuf, peerIn, peer, faults, sent>>
    /\ UNCHANGED <<objVars, clVars, wrVars, tlog>>

\* Outcome of s.file.Read(buf) without an injected failure: the error, or
\* "nil" with the bytes read.  os.File refuses a closed file before any
\* system call; a read of 0 bytes is reported as io.EOF.
FileReadErr ==
    IF fileClosed THEN "ErrClosed"
    ELSE IF ~fdOpen["fd"] THEN "EBADF"
    ELSE IF devBuf = <<>> THEN "EOF"
    ELSE "nil"
FileReadN == Min(Len(devBuf), BufSize)
FileReadEnabled == fileClosed \/ ~fdOpen["fd"] \/ devBuf # <<>> \/ peer # "open"

\* Faulty variant: a read replaces the accumulation instead of extending it.
RLL_ReadOverwrite ==
    /\ rop = "ReadLinesLoop"
    /\ rpc = "read"
    /\ FileReadEnabled
    /\ IF FileReadErr = "nil"
       THEN /\ line' = Take(devBuf, FileReadN)
            /\ consumed' = consumed \o Take(devBuf, FileReadN)
            /\ devBuf' = Drop(devBuf, FileReadN)
            /\ rpc' = "frame"
            /\ UNCHANGED rerr
       ELSE /\ rerr' = FileReadErr
            /\ rpc' = "onerr"
            /\ UNCHANGED <<line, consumed, devBuf>>
    /\ sysBad' = IF fileClosed THEN sysBad ELSE sysBad \cup BadSys("read", {"fd"})
    /\ UNCHANGED <<rop, pfd, pollRef, rret, calls, rcalls, rAfterClose>>
    /\ UNCHANGED <<termios, fdOpen, peerIn, peer, pipeBuf, faults, sent>>
    /\ UNCHANGED <<objVars, clVars, wrVars, tlog>>
\* n, err := s.file.Read(buf); line += string(buf[:n])
RLL_Read ==
    /\ rop = "ReadLinesLoop"
    /\ rpc = "read"
    /\ FileReadEnabled
    /\ IF FileReadErr = "nil"
       THEN /\ line' = line \o Take(devBuf, FileReadN)
            /\ consumed' = consumed \o Take(devBuf, FileReadN)
            /\ devBuf' = Drop(devBuf, FileReadN)
            /\ rpc' = "frame"
            /\ UNCHANGED rerr
       ELSE /\ rerr' = FileReadErr
            /\ rpc' = "onerr"
            /\ UNCHANGED <<line, consumed, devBuf>>
    /\ sysBad' = IF fileClosed THEN sysBad ELSE sysBad \cup BadSys("read", {"fd"})
    /\ UNCHANGED <<rop, pfd, pollRef, rret, calls, rcalls, rAfterClose>>
    /\ UNCHANGED <<termios, fdOpen, peerIn, peer, pipeBuf, faults, sent>>
    /\ UNCHANGED <<objVars, clVars, wrVars, tlog>>

\* read(2) fails with a device error.
RLL_ReadFail ==
    /\ rop = "ReadLinesLoop"
    /\ rpc = "read"
    /\ ~fileClosed
    /\ faults < MaxFaults
    /\ faults' = faults + 1
    /\ \E e \in ReadErrs : rerr' = e
    /\ rpc' = "onerr"
    /\ UNCHANGED <<rop, line, pfd, pollRef, rret, calls, consumed, rcalls, rAfterClose>>
    /\ UNCHANGED <<termios, fdOpen, devBuf, peerIn, peer, pipeBuf, sent>>
    /\ UNCHANGED <<objVars, clVars, wrVars, histVars>>

\* read(2) is interrupted: os.File.Read repeats the system call itself.
RLL_ReadEINTR ==
    /\ rop = "ReadLinesLoop"
    /\ rpc = "read"
    /\ ~fileClosed
    /\ faults < MaxFaults
    /\ faults' = faults + 1
    /\ UNCHANGED <<termios, fdOpen, devBuf, peerIn, peer, pipeBuf, sent>>
    /\ UNCHANGED <<objVars, rdVars, clVars, wrVars, histVars>>

\* Faulty variant: the line is cut one byte after idx, not len(delimiter) bytes.
RLL_ExtractCutOne ==
    /\ rop = "ReadLinesLoop"
    /\ rpc = "frame"
    /\ LET idx == Index(line, config.Delimiter)
       IN  IF idx < 0
           THEN /\ rpc' = "poll"
                /\ UNCHANGED <<line, calls>>
           ELSE /\ calls' = Append(calls, <<"onLine", Take(line, idx)>>)
                /\ line' = Drop(line, idx + 1)
                /\ UNCHANGED rpc
    /\ UNCHANGED <<rop, pfd, pollRef, rerr, rret, consumed, rcalls, rAfterClose>>
    /\ UNCHANGED <<osVars, objVars, clVars, wrVars, histVars>>
\* One round of the inner for loop: onLine(line[:idx]) and cut the line, or break.
RLL_Extract ==
    /\ rop = "ReadLinesLoop"
    /\ rpc = "frame"
    /\ Len(calls) < MaxCalls
    /\ LET idx == Index(line, config.Delimiter)
       IN  IF idx < 0
           THEN /\ rpc' = "poll"
                /\ UNCHANGED <<line, calls>>
           ELSE /\ calls' = Append(calls, <<"onLine", Take(line, idx)>>)
                /\ line' = Drop(line, idx + Len(config.Delimiter))
                /\ UNCHANGED rpc
    /\ UNCHANGED <<rop, pfd, pollRef, rerr, rret, consumed, rcalls, rAfterClose>>
    /\ UNCHANGED <<osVars, objVars, clVars, wrVars, histVars>>

ReadLinesLoop ==
    \/ RLL_Call
    \/ PollEnter("ReadLinesLoop")
    \/ PollReturn("ReadLinesLoop")
    \/ RLL_PollFail
    \/ RLL_Check
    \/ RLL_Read
    \/ RLL_ReadFail
    \/ RLL_ReadEINTR
    \/ RLL_Extract
    \/ RLL_OnError

\* ---------------------------------------------------------------- ReadLine
ClosedErr == "serialreader closed"

\* Faulty variant: the accumulation buffer outlives the call, so what a call
\* read after the line it returned is still there for the next one.
RL_CallKeepBuffer ==
    /\ obj = "open"
    /\ rpc \in {"idle", "ret"}
    /\ rcalls < MaxReaderCalls
    /\ rcalls' = rcalls + 1
    /\ rop' = "ReadLine"
    /\ rpc' = "poll"
    /\ line' = IF rop = "ReadLine" /\ rret.err = "nil"
               THEN Drop(line, Index(line, config.Delimiter) + Len(config.Delimiter))
               ELSE <<>>
    /\ calls' = <<>>
    /\ consumed' = <<>>
    /\ rerr' = "nil"
    /\ rret' = NoRet
    /\ pfd' = NoEvents
    /\ rAfterClose' = (closeReturned > 0)
    /\ UNCHANGED pollRef
    /\ UNCHANGED <<osVars, objVars, clVars, wrVars, histVars>>
\* ReadLine is called: buf and line are fresh locals.
RL_Call ==
    /\ obj = "open"
    /\ rpc \in {"idle", "ret"}
    /\ rcalls < MaxReaderCalls
    /\ rcalls' = rcalls + 1
    /\ rop' = "ReadLine"
    /\ rpc' = "poll"
    /\ line' = <<>>
    /\ calls' = <<>>
    /\ consumed' = <<>>
    /\ rerr' = "nil"
    /\ rret' = NoRet
    /\ pfd' = NoEvents
    /\ rAfterClose' = (closeReturned > 0)
    /\ UNCHANGED pollRef
    /\ UNCHANGED <<osVars, objVars, clVars, wrVars, histVars>>

\* unix.Poll fails: return "", err
RL_PollFail ==
    /\ rop = "ReadLine"
    /\ rpc = "wait"
    /\ faults < MaxFaults
    /\ faults' = faults + 1
    /\ \E e \in PollErrs :
        /\ rerr' = e
        /\ rret' = [line |-> <<>>, err |-> e]
    /\ rpc' = "ret"
    /\ UNCHANGED <<rop, line, pfd, pollRef, calls, consumed, rcalls, rAfterClose>>
    /\ UNCHANGED <<termios, fdOpen, devBuf, peerIn, peer, pipeBuf, sent>>
    /\ UNCHANGED <<objVars, clVars, wrVars, histVars>>

\* select { case <-s.done: return "", closed; default: } followed by the two
\* tests of revents.
RL_Check ==
    /\ rop = "ReadLine"
    /\ rpc = "chk"
    /\ IF done
       THEN /\ rpc' = "ret"
            /\ rret' = [line |-> <<>>, err |-> ClosedErr]
            /\ UNCHANGED <<pipeBuf, sysBad>>
       ELSE IF "POLLIN" \in pfd["pipeR"]
       THEN /\ rpc' = "ret"
            /\ rret' = [line |-> <<>>, err |-> ClosedErr]
            /\ pipeBuf' = IF fdOpen["pipeR"] /\ pipeBuf > 0 THEN pipeBuf - 1 ELSE pipeBuf
            /\ sysBad' = sysBad \cup BadSys("read", {"pipeR"})
       ELSE /\ rpc' = IF "POLLIN" \in pfd["fd"] THEN "read" ELSE "poll"
            /\ UNCHANGED <<rret, pipeBuf, sysBad>>
    /\ UNCHANGED <<rop, line, pfd, pollRef, rerr, calls, consumed, rcalls, rAfterClose>>
    /\ UNCHANGED <<termios, fdOpen, devBuf, peerIn, peer, faults, sent>>
    /\ UNCHANGED <<objVars, clVars, wrVars, tlog>>

\* n, err := s.file.Read(buf); line += string(buf[:n])
RL_Read ==
    /\ rop = "ReadLine"
    /\ rpc = "read"
    /\ FileReadEnabled
    /\ IF FileReadErr = "nil"
       THEN /\ line' = line \o Take(devBuf, FileReadN)
            /\ consumed' = consumed \o Take(devBuf, FileReadN)
            /\ devBuf' = Drop(devBuf, FileReadN)
            /\ rpc' = "frame"
            /\ UNCHANGED <<rerr, rret>>
       ELSE /\ rerr' = FileReadErr
            /\ rret' = [line |-> <<>>, err |-> FileReadErr]
            /\ rpc' = "ret"
            /\ UNCHANGED <<line, consumed, devBuf>>
    /\ sysBad' = IF fileClosed THEN sysBad ELSE sysBad \cup BadSys("read", {"fd"})
    /\ UNCHANGED <<rop, pfd, pollRef, calls, rcalls, rAfterClose>>
    /\ UNCHANGED <<termios, fdOpen, peerIn, peer, pipeBuf, faults, sent>>
    /\ UNCHANGED <<objVars, clVars, wrVars, tlog>>

RL_ReadFail ==
    /\ rop = "ReadLine"
    /\ rpc = "read"
    /\ ~fileClosed
    /\ faults < MaxFaults
    /\ faults' = faults + 1
    /\ \E e \in ReadErrs :
        /\ rerr' = e
        /\ rret' = [line |-> <<>>, err |-> e]
    /\ rpc' = "ret"
    /\ UNCHANGED <<rop, line, pfd, pollRef, calls, consumed, rcalls, rAfterClose>>
    /\ UNCHANGED <<termios, fdOpen, devBuf, peerIn, peer, pipeBuf, sent>>
    /\ UNCHANGED <<objVars, clVars, wrVars, histVars>>

RL_ReadEINTR ==
    /\ rop = "ReadLine"
    /\ rpc = "read"
    /\ ~fileClosed
    /\ faults < MaxFaults
    /\ faults' = faults + 1
    /\ UNCHANGED <<termios, fdOpen, devBuf, peerIn, peer, pipeBuf, sent>>
    /\ UNCHANGED <<objVars, rdVars, clVars, wrVars, histVars>>

\* if idx := strings.Index(line, delimiter); idx >= 0 { return line[:idx], nil }
RL_Frame ==
    /\ rop = "ReadLine"
    /\ rpc = "frame"
    /\ LET idx == Index(line, config.Delimiter)
       IN  IF idx < 0
           THEN /\ rpc' = "poll"
                /\ UNCHANGED rret
           ELSE /\ rret' = [line |-> Take(line, idx), err |-> "nil"]
                /\ rpc' = "ret"
    /\ UNCHANGED <<rop, line, pfd, pollRef, rerr, calls, consumed, rcalls, rAfterClose>>
    /\ UNCHANGED <<osVars, objVars, clVars, wrVars, histVars>>

ReadLine ==
    \/ RL_Call
    \/ PollEnter("ReadLine")
    \/ PollReturn("ReadLine")
    \/ RL_PollFail
    \/ RL_Check
    \/ RL_Read
    \/ RL_ReadFail
    \/ RL_ReadEINTR
    \/ RL_Frame

\* ------------------------------------------------------------------ Close
BadClose(c, f) ==
    IF fdOpen[f] THEN {}
    ELSE {[thread |-> c, call |-> "close", fd |-> f, afterClose |-> FALSE]}

\* Faulty variant: the teardown runs on every call, without sync.Once.
Close_CallUnguarded(c) ==
    /\ obj = "open"
    /\ cpc[c] = "idle"
    /\ ccalls < MaxCloseCalls
    /\ ccalls' = ccalls + 1
    /\ cerr' = [cerr EXCEPT ![c] = "nil"]
    /\ closeOnce' = "running"
    /\ cpc' = [cpc EXCEPT ![c] = "done"]
    /\ UNCHANGED <<obj, openErr, failedAt, config, done, fileClosed>>
    /\ UNCHANGED <<closeReturned, closeErrs>>
    /\ UNCHANGED <<osVars, rdVars, wrVars, histVars>>
\* var err error; s.closeOnce.Do(...): the first caller runs the function, a
\* caller arriving while it runs waits for it to finish, later callers skip it.
Close_Call(c) ==
    /\ obj = "open"
    /\ cpc[c] = "idle"
    /\ ccalls < MaxCloseCalls
    /\ closeOnce # "running"
    /\ ccalls' = ccalls + 1
    /\ cerr' = [cerr EXCEPT ![c] = "nil"]
    /\ IF closeOnce = "fresh"
       THEN /\ closeOnce' = "running"
            /\ cpc' = [cpc EXCEPT ![c] = "done"]
       ELSE /\ cpc' = [cpc EXCEPT ![c] = "ret"]
            /\ UNCHANGED closeOnce
    /\ UNCHANGED <<obj, openErr, failedAt, config, done, fileClosed>>
    /\ UNCHANGED <<closeReturned, closeErrs>>
    /\ UNCHANGED <<osVars, rdVars, wrVars, histVars>>

\* Faulty variant: the teardown starts without closing s.done.
Close_DoneNotSet(c) ==
    /\ cpc[c] = "done"
    /\ tlog' = Append(tlog, "done")
    /\ cpc' = [cpc EXCEPT ![c] = "wake"]
    /\ UNCHANGED objVars
    /\ UNCHANGED <<cerr, ccalls, closeReturned, closeErrs, sysBad>>
    /\ UNCHANGED <<osVars, rdVars, wrVars>>
\* close(s.done)
Close_Done(c) ==
    /\ cpc[c] = "done"
    /\ done' = TRUE
    /\ tlog' = Append(tlog, "done")
    /\ cpc' = [cpc EXCEPT ![c] = "wake"]
    /\ UNCHANGED <<obj, openErr, failedAt, config, closeOnce, fileClosed>>
    /\ UNCHANGED <<cerr, ccalls, closeReturned, closeErrs, sysBad>>
    /\ UNCHANGED <<osVars, rdVars, wrVars>>

\* Faulty variant: the wakeup step runs but its byte is not written.
Close_WakeNoByte(c) ==
    /\ cpc[c] = "wake"
    /\ tlog' = Append(tlog, "wake")
    /\ cpc' = [cpc EXCEPT ![c] = "file"]
    /\ UNCHANGED <<osVars, sysBad>>
    /\ UNCHANGED <<cerr, ccalls, closeReturned, closeErrs>>
    /\ UNCHANGED <<objVars, rdVars, wrVars>>
\* unix.Write(s.pipeW, []byte{1})
Close_Wake(c) ==
    /\ cpc[c] = "wake"
    /\ pipeBuf' = IF fdOpen["pipeW"] THEN pipeBuf + 1 ELSE pipeBuf
    /\ sysBad' = sysBad \cup
                 (IF fdOpen["pipeW"] THEN {}
                  ELSE {[thread |-> c, call |-> "write", fd |-> "pipeW", afterClose |-> FALSE]})
    /\ tlog' = Append(tlog, "wake")
    /\ cpc' = [cpc EXCEPT ![c] = "file"]
    /\ UNCHANGED <<termios, fdOpen, devBuf, peerIn, peer, faults, sent>>
    /\ UNCHANGED <<cerr, ccalls, closeReturned, closeErrs>>
    /\ UNCHANGED <<objVars, rdVars, wrVars>>

\* err = s.file.Close(): marks the os.File closed and closes its descriptor;
\* a second Close of the same os.File fails without a system call.
Close_File(c) ==
    /\ cpc[c] = "file"
    /\ IF fileClosed
       THEN /\ cerr' = [cerr EXCEPT ![c] = "ErrClosed"]
            /\ UNCHANGED <<fileClosed, fdOpen, sysBad>>
       ELSE /\ fileClosed' = TRUE
            /\ fdOpen' = [fdOpen EXCEPT !["fd"] = FALSE]
            /\ sysBad' = sysBad \cup BadClose(c, "fd")
            /\ cerr' = [cerr EXCEPT ![c] = IF fdOpen["fd"] THEN "nil" ELSE "EBADF"]
    /\ tlog' = Append(tlog, "file")
    /\ cpc' = [cpc EXCEPT ![c] = "fd"]
    /\ UNCHANGED <<termios, devBuf, peerIn, peer, pipeBuf, faults, sent>>
    /\ UNCHANGED <<obj, openErr, failedAt, config, done, closeOnce>>
    /\ UNCHANGED <<ccalls, closeReturned, closeErrs>>
    /\ UNCHANGED <<rdVars, wrVars>>

\* A close(2) of descriptor f by thread c, as one step of the teardown.
CloseFd(c, f, step, next) ==
    /\ fdOpen' = [fdOpen EXCEPT ![f] = FALSE]
    /\ sysBad' = sysBad \cup BadClose(c, f)
    /\ tlog' = Append(tlog, step)
    /\ cpc' = [cpc EXCEPT ![c] = next]
    /\ UNCHANGED <<termios, devBuf, peerIn, peer, pipeBuf, faults, sent>>
    /\ UNCHANGED <<cerr, ccalls, closeReturned, closeErrs>>
    /\ UNCHANGED <<rdVars, wrVars>>

\* syscall.Close(s.fd)
Close_Fd(c) ==
    /\ cpc[c] = "fd"
    /\ CloseFd(c, "fd", "fd", "pipeR")
    /\ UNCHANGED objVars

\* unix.Close(s.pipeR)
Close_PipeR(c) ==
    /\ cpc[c] = "pipeR"
    /\ CloseFd(c, "pipeR", "pipeR", "pipeW")
    /\ UNCHANGED objVars

\* unix.Close(s.pipeW); the function passed to closeOnce.Do returns.
Close_PipeW(c) ==
    /\ cpc[c] = "pipeW"
    /\ CloseFd(c, "pipeW", "pipeW", "ret")
    /\ closeOnce' = "done"
    /\ UNCHANGED <<obj, openErr, failedAt, config, done, fileClosed>>

\* return err
Close_Return(c) ==
    /\ cpc[c] = "ret"
    /\ closeReturned' = closeReturned + 1
    /\ closeErrs' = IF cerr[c] = "nil" THEN closeErrs ELSE closeErrs \cup {cerr[c]}
    /\ cpc' = [cpc EXCEPT ![c] = "idle"]
    /\ UNCHANGED <<cerr, ccalls>>
    /\ UNCHANGED <<osVars, objVars, rdVars, wrVars, histVars>>

Close(c) ==
    \/ Close_Call(c)
    \/ Close_Done(c)
    \/ Close_Wake(c)
    \/ Close_File(c)
    \/ Close_Fd(c)
    \/ Close_PipeR(c)
    \/ Close_PipeW(c)
    \/ Close_Return(c)

\* Faulty variant: the output is put together in the buffer the read loop
\* accumulates in.
WriteLineSharedBuffer(payloads, newlines) ==
    /\ obj = "open"
    /\ wcalls < MaxWrites
    /\ wcalls' = wcalls + 1
    /\ \E payload \in payloads, newline \in newlines :
        LET data == payload \o newline
            err == IF fileClosed THEN "ErrClosed"
                   ELSE IF ~fdOpen["fd"] THEN "EBADF"
                   ELSE IF peer # "open" THEN "EIO"
                   ELSE "nil"
        IN  /\ peerIn' = IF err = "nil" THEN peerIn \o TtyOut(data, termios) ELSE peerIn
            /\ line' = data
            /\ wlast' = [payload |-> payload, newline |-> newline, err |-> err,
                         pre |-> peerIn, afterClose |-> closeReturned > 0,
                         midLine |-> ReaderActive /\ line # <<>>]
    /\ sysBad' = sysBad \cup
                 (IF fileClosed \/ fdOpen["fd"] THEN {}
                  ELSE {[thread |-> "writer", call |-> "write", fd |-> "fd", afterClose |-> closeReturned > 0]})
    /\ UNCHANGED <<termios, fdOpen, devBuf, peer, pipeBuf, faults, sent>>
    /\ UNCHANGED <<rpc, rop, pfd, pollRef, rerr, rret, calls, consumed, rcalls, rAfterClose>>
    /\ UNCHANGED <<objVars, clVars, tlog>>
\* -------------------------------------------------------------- WriteLine
\* s.file.WriteString(line + newline): os.File refuses a closed file, and
\* otherwise writes until every byte is written or a write fails.
WriteLine(payloads, newlines) ==
    /\ obj = "open"
    /\ wcalls < MaxWrites
    /\ wcalls' = wcalls + 1
    /\ \E payload \in payloads, newline \in newlines :
        LET data == payload \o newline
            err == IF fileClosed THEN "ErrClosed"
                   ELSE IF ~fdOpen["fd"] THEN "EBADF"
                   ELSE IF peer # "open" THEN "EIO"
                   ELSE "nil"
        IN  /\ peerIn' = IF err = "nil" THEN peerIn \o TtyOut(data, termios) ELSE peerIn
            /\ wlast' = [payload |-> payload, newline |-> newline, err |-> err,
                         pre |-> peerIn, afterClose |-> closeReturned > 0,
                         midLine |-> ReaderActive /\ line # <<>>]
    /\ sysBad' = sysBad \cup
                 (IF fileClosed \/ fdOpen["fd"] THEN {}
                  ELSE {[thread |-> "writer", call |-> "write", fd |-> "fd", afterClose |-> closeReturned > 0]})
    /\ UNCHANGED <<termios, fdOpen, devBuf, peer, pipeBuf, faults, sent>>
    /\ UNCHANGED <<objVars, rdVars, clVars, tlog>>

\* A write(2) fails after k bytes: WriteLine returns the error.
WriteLine_Fail(payloads, newlines) ==
    /\ obj = "open"
    /\ wcalls < MaxWrites
    /\ ~fileClosed
    /\ peer = "open"
    /\ faults < MaxFaults
    /\ faults' = faults + 1
    /\ wcalls' = wcalls + 1
    /\ \E payload \in payloads, newline \in newlines :
        LET data == payload \o newline
        IN  \E k \in 0..(Len(data) - 1) :
              /\ peerIn' = peerIn \o TtyOut(Take(data, k), termios)
              /\ wlast' = [payload |-> payload, newline |-> newline, err |-> "EIO",
                           pre |-> peerIn, afterClose |-> closeReturned > 0,
                         midLine |-> ReaderActive /\ line # <<>>]
    /\ UNCHANGED <<termios, fdOpen, devBuf, peer, pipeBuf, sent>>
    /\ UNCHANGED <<objVars, rdVars, clVars, histVars>>

\* ---------------------------------------------------------- specifications
Delims == {LF}
TestBauds == {115200}
PeerChunks == {<<"a">>, <<"n">>}

\* Lifecycle: one reader thread, the closing threads, the peer.
Next ==
    \/ Open(Delims, TestBauds)
    \/ PeerWrite(PeerChunks, MaxStream)
    \/ PeerClose
    \/ ReadLinesLoop
    \/ ReadLine
    \/ \E c \in Closers : Close(c)
    \/ WriteLine({<<"a">>}, {LF})
    \/ WriteLine_Fail({<<"a">>}, {LF})

Spec == Init /\ [][Next]_vars

\* Framing: one reader thread running ReadLinesLoop against a peer that sends
\* any bytes in any chunks, with delimiters of one and two bytes, one of them
\* overlapping itself.
FramingDelims == {LF, CRLF, <<"a", "a">>}

NextFraming ==
    \/ Open(FramingDelims, TestBauds)
    \/ PeerWrite(Chunks(Byte), MaxStreamFraming)
    \/ PeerClose
    \/ ReadLinesLoop

SpecFraming == Init /\ [][NextFraming]_vars

\* Writing: WriteLine with payloads and terminators that contain line feeds,
\* next to the peer and Close.
Payloads == {<<>>, <<"a">>, <<"a", "n">>}
Newlines == {LF, CRLF}

NextWrite ==
    \/ Open(Delims, TestBauds)
    \/ PeerWrite({LF}, MaxStreamLive)
    \/ PeerClose
    \/ WriteLine(Payloads, Newlines)
    \/ WriteLine_Fail(Payloads, Newlines)
    \/ \E c \in Closers : Close(c)

SpecWrite == Init /\ [][NextWrite]_vars

\* Both read calls over every framing delimiter: the peer sends any bytes in
\* any chunking, and calls follow one another on the reader thread.
NextLines ==
    \/ Open(FramingDelims, TestBauds)
    \/ PeerWrite(Chunks(Byte), MaxStreamFraming)
    \/ PeerClose
    \/ ReadLinesLoop
    \/ ReadLine

SpecLines == Init /\ [][NextLines]_vars

\* A Config whose Delimiter field is left at its zero value, next to one that
\* names CR LF: both read calls over a short stream.
UnsetDelims == {<<>>, CRLF}

NextUnset ==
    \/ Open(UnsetDelims, TestBauds)
    \/ PeerWrite(Chunks(Byte), MaxStream)
    \/ PeerClose
    \/ ReadLinesLoop
    \/ ReadLine

SpecUnset == Init /\ [][NextUnset]_vars

\* WriteLine calls while a ReadLinesLoop runs on the same open SerialReader;
\* the peer sends, reads what is written, and may go away.
NextDuplex ==
    \/ Open(Delims, TestBauds)
    \/ PeerWrite(PeerChunks, MaxStream)
    \/ PeerClose
    \/ ReadLinesLoop
    \/ WriteLine({<<"a">>}, {LF})
    \/ WriteLine_Fail({<<"a">>}, {LF})

SpecDuplex == Init /\ [][NextDuplex]_vars

\* Baud rates a Config may carry: the six of the switch, and others on both
\* sides of them, zero and a negative one included.
SupportedBauds == {9600, 19200, 38400, 57600, 115200, 230400}
Bauds == SupportedBauds \cup {-1, 0, 4800, 115201, 460800}

\* Open with any of these baud rates, and traffic over the opened device.
NextBaud ==
    \/ Open(Delims, Bauds)
    \/ PeerWrite({LF}, MaxStreamLive)
    \/ PeerClose
    \/ WriteLine({<<"a">>}, {LF})

SpecBaud == Init /\ [][NextBaud]_vars

\* Steps the scheduler owes the reader thread and a closing thread: every
\* step of a call in progress, but neither a new call nor a failure of the
\* operating system.
ReaderProgress ==
    \/ PollEnter("ReadLinesLoop") \/ PollReturn("ReadLinesLoop")
    \/ RLL_Check \/ RLL_Read \/ RLL_Extract \/ RLL_OnError
    \/ PollEnter("ReadLine") \/ PollReturn("ReadLine")
    \/ RL_Check \/ RL_Read \/ RL_Frame

CloserProgress(c) ==
    \/ Close_Done(c) \/ Close_Wake(c) \/ Close_File(c) \/ Close_Fd(c)
    \/ Close_PipeR(c) \/ Close_PipeW(c) \/ Close_Return(c)

\* The lifecycle again, for the properties of eventual return: the calls in
\* progress, Close, and a peer that sends at most MaxStreamLive bytes or goes
\* away; no failure is injected.
NextLive ==
    \/ Open(Delims, TestBauds)
    \/ PeerWrite({LF}, MaxStreamLive)
    \/ PeerClose
    \/ RLL_Call
    \/ RL_Call
    \/ ReaderProgress
    \/ \E c \in Closers : Close(c)

SpecLive == Init /\ [][NextLive]_vars

\* The four operations on one shared SerialReader, without injected failures.
NextShared ==
    \/ NextLive
    \/ WriteLine({<<"a">>}, {LF})

SpecShared == Init /\ [][NextShared]_vars

FairSpec ==
    /\ SpecLive
    /\ WF_vars(ReaderProgress)
    /\ \A c \in Closers : WF_vars(CloserProgress(c))

\* ------------------------------------------------------------- properties
OnErrorCalls == {i \in 1..Len(calls) : calls[i][1] = "onError"}
OnLineCalls == {i \in 1..Len(calls) : calls[i][1] = "onLine"}
TeardownSteps == <<"done", "wake", "file", "fd", "pipeR", "pipeW">>

\* C2: however many Close calls are made, from one thread or several, the
\* teardown steps (closed flag, wakeup byte, releases) run at most once each,
\* all of them have run once when a Close call has returned, and no Close
\* call returns an error.
C2_CloseOnce ==
    /\ tlog = Take(TeardownSteps, Min(Len(tlog), Len(TeardownSteps)))
    /\ closeReturned > 0 => tlog = TeardownSteps
    /\ closeErrs = {}

C2_Witness ==
    /\ closeReturned >= 2
    /\ tlog = TeardownSteps
    /\ \A c \in Closers : cpc[c] = "idle"

\* C4: a ReadLinesLoop that returns after Close was called, with no failure
\* of the wait or of the device, has invoked onError not at all.
C4_SilentClose ==
    (rop = "ReadLinesLoop" /\ rpc = "ret" /\ done /\ faults = 0 /\ peer = "open")
        => OnErrorCalls = {}

\* C6: no close is ever issued on a descriptor number that is already released.
C6_ReleasedOnce == \A e \in sysBad : e.call # "close"

\* C7: a ReadLine, ReadLinesLoop or WriteLine call made after Close has
\* returned issues no system call on a released descriptor number and fails
\* with the closed-state error.
C7_FailsAfterClose ==
    /\ \A e \in sysBad : ~e.afterClose
    /\ (rAfterClose /\ rpc = "ret" /\ rop = "ReadLine") => rret.err = ClosedErr
    /\ (rAfterClose /\ rpc = "ret" /\ rop = "ReadLinesLoop")
            => calls = << <<"onError", ClosedErr>> >>
    /\ (wlast.afterClose /\ wlast.err # "none") => wlast.err \in {ClosedErr, "ErrClosed"}

\* C9: in one ReadLinesLoop invocation a failure of the wait or of the device
\* read is passed to onError exactly once, as the last callback, and the loop
\* then returns without another wait or read.
C9_ErrorOnceThenReturn ==
    rop = "ReadLinesLoop" =>
        /\ Cardinality(OnErrorCalls) <= 1
        /\ \A i \in OnErrorCalls : i = Len(calls) /\ calls[i][2] = rerr /\ rpc = "ret"
        /\ rerr # "nil" => rpc \in {"onerr", "ret"}
        /\ (rerr # "nil" /\ rpc = "ret") => OnErrorCalls # {}

C9_Witness ==
    /\ rop = "ReadLinesLoop"
    /\ rpc = "ret"
    /\ rerr \in PollErrs \cup ReadErrs
    /\ Len(calls) = 2
    /\ calls[1][1] = "onLine"
    /\ calls[2] = <<"onError", rerr>>

\* C10: an interrupted wait or read (EINTR) is retried: it is never passed to
\* onError, never returned by ReadLine, and does not end the call.
C10_EINTRRetried ==
    /\ \A i \in 1..Len(calls) : calls[i] # <<"onError", "EINTR">>
    /\ rret.err # "EINTR"
    /\ rerr # "EINTR"

\* C3: once Close has been called, a ReadLine or ReadLinesLoop call in
\* progress eventually returns, whether or not the device delivers anything.
C3_CloseUnblocks == (ccalls > 0 /\ ReaderActive) ~> ~ReaderActive

\* The reader entered poll with both descriptors open, no byte ever came from
\* the device, and the call returned after poll reported the wakeup byte only.
C3_Witness ==
    /\ rpc = "ret"
    /\ done
    /\ ~rAfterClose
    /\ sent = 0
    /\ peer = "open"
    /\ faults = 0
    /\ pollRef = [f \in {"fd", "pipeR"} |-> TRUE]
    /\ pfd["fd"] = {}
    /\ "POLLIN" \in pfd["pipeR"]

\* C5: when the peer end is closed while a call waits (or is about to wait)
\* with nothing left to read, the call eventually returns having reported a
\* failure (onError invoked, or a non-nil error from ReadLine), unless Close
\* ends it first.
Reported ==
    \/ rop = "ReadLinesLoop" /\ OnErrorCalls # {}
    \/ rop = "ReadLine" /\ rret.err \notin {"nil", "none"}
C5_PeerCloseReported ==
    (peer # "open" /\ devBuf = <<>> /\ rpc \in {"poll", "wait"} /\ ~done)
        ~> (done \/ (rpc = "ret" /\ Reported))

\* The complete lines of a byte stream: scanning from the left, every
\* occurrence of the delimiter that does not overlap the one before it ends a
\* line, which holds the bytes since the end of the previous delimiter.
RECURSIVE SplitFrom(_, _, _, _)
SplitFrom(s, d, i, start) ==
    IF i + Len(d) > Len(s) THEN <<>>
    ELSE IF IsAt(s, d, i)
         THEN <<SubSeq(s, start + 1, i)>> \o SplitFrom(s, d, i + Len(d), i + Len(d))
         ELSE SplitFrom(s, d, i + 1, start)
CompleteLines(s, d) == SplitFrom(s, d, 0, 0)

IsPrefix(a, b) == Len(a) <= Len(b) /\ a = Take(b, Len(a))
LineArgs == [i \in 1..Cardinality(OnLineCalls) |-> calls[i][2]]
RECURSIVE Flat(_)
Flat(ss) == IF ss = <<>> THEN <<>> ELSE Head(ss) \o Flat(Tail(ss))
FlatLines == Flat(LineArgs)

\* C1: with a non-empty delimiter, the lines ReadLinesLoop has passed to
\* onLine are, in order, exactly the complete lines of the bytes it has read
\* so far, however those bytes were cut into reads: one call per delimiter
\* occurrence, none missing, repeated or out of order.  While the lines of the
\* last read are still being delivered they are the first of those lines.
C1_LinesInOrder ==
    (rop = "ReadLinesLoop" /\ config.Delimiter # <<>>) =>
        /\ \A i \in OnLineCalls : i <= Cardinality(OnLineCalls)
        /\ IF rpc = "frame"
           THEN IsPrefix(LineArgs, CompleteLines(consumed, config.Delimiter))
           ELSE LineArgs = CompleteLines(consumed, config.Delimiter)

\* Two lines framed by CR LF out of a stream that took more than one read.
C1_Witness ==
    /\ rop = "ReadLinesLoop"
    /\ rpc = "wait"
    /\ config.Delimiter = CRLF
    /\ Len(consumed) > BufSize
    /\ Len(LineArgs) = 2
    /\ line = <<>>

\* C8: a WriteLine that returns no error has added to what the peer observes
\* exactly the payload followed by the terminator.
C8_WriteExact ==
    wlast.err = "nil" => peerIn = wlast.pre \o wlast.payload \o wlast.newline

C8_Witness ==
    /\ wlast.err = "nil"
    /\ wlast.payload = <<"a", "n">>
    /\ wlast.newline = CRLF
    /\ peerIn = <<"a", "n", "r", "n">>

\* strings.Contains, by definition rather than through Index.
Contains(s, d) == \E i \in 0..Len(s) : IsAt(s, d, i)

\* C11: with a non-empty delimiter, no string handed to onLine by
\* ReadLinesLoop and no string returned with a nil error by ReadLine contains
\* an occurrence of the delimiter.
C11_NoDelimiterInLine ==
    config.Delimiter # <<>> =>
        /\ \A i \in OnLineCalls : ~Contains(calls[i][2], config.Delimiter)
        /\ (rop = "ReadLine" /\ rret.err = "nil") => ~Contains(rret.line, config.Delimiter)

\* ReadLine returned a line that ends in half a delimiter: "n" out of "n\r\n".
C11_Witness ==
    /\ config.Delimiter = CRLF
    /\ rop = "ReadLine" /\ rpc = "ret"
    /\ rret = [line |-> <<"n">>, err |-> "nil"]

\* C12: a SerialReader opened with Delimiter left empty frames lines as one
\* opened with CR LF does: ReadLinesLoop delivers the CR LF-terminated lines of
\* what it has read, and ReadLine returns the bytes before the first CR LF.
C12_DefaultDelimiter ==
    (obj = "open" /\ config.Delimiter = <<>>) =>
        /\ rop = "ReadLinesLoop" => IsPrefix(LineArgs, CompleteLines(consumed, CRLF))
        /\ (rop = "ReadLine" /\ rret.err = "nil") =>
               /\ Contains(consumed, CRLF)
               /\ rret.line = Take(consumed, Index(consumed, CRLF))

\* C13: ReadLine accumulates only what this call has read; it goes back to
\* wait only while the accumulation holds no delimiter, so it returns at the
\* first read that completes one; what it returns with a nil error is the
\* bytes before the first delimiter of what this call has read, whatever it
\* has read beyond.
C13_OneShotLine ==
    (rop = "ReadLine" /\ config.Delimiter # <<>>) =>
        /\ line = consumed
        /\ rpc \in {"poll", "wait", "chk", "read"} => ~Contains(line, config.Delimiter)
        /\ rret.err = "nil" =>
               LET n == Len(rret.line)
               IN  /\ rpc = "ret"
                   /\ rret.line = Take(consumed, n)
                   /\ IsAt(consumed, config.Delimiter, n)
                   /\ \A i \in 0..(n - 1) : ~IsAt(consumed, config.Delimiter, i)

\* A second call returned a line although it had read a byte beyond the
\* delimiter, after an earlier call had consumed part of the stream.
C13_Witness ==
    /\ rcalls = 2
    /\ rop = "ReadLine" /\ rpc = "ret" /\ rret.err = "nil"
    /\ Len(consumed) > Len(rret.line) + Len(config.Delimiter)
    /\ sent > Len(consumed) + Len(devBuf)

\* C14: an Open that fails at a step returns no SerialReader and an error
\* whose prefix is the one of that step and of no other step; a SerialReader
\* is returned, with a nil error, only when no step failed.
C14_OpenFailure ==
    /\ obj = "failed" =>
           /\ failedAt \in OpenSteps
           /\ openErr # "nil"
           /\ openErr = OpenError(failedAt)
           /\ \A step \in OpenSteps \ {failedAt} : openErr # OpenError(step)
           /\ rcalls = 0 /\ wcalls = 0 /\ ccalls = 0
    /\ obj = "open" => (failedAt = "none" /\ openErr = "nil")
    /\ obj = "none" => (failedAt = "none" /\ openErr = "nil")

\* Open failed when it committed the attributes.
C14_Witness ==
    /\ obj = "failed"
    /\ failedAt = "tcsets"
    /\ openErr = "set termios"

\* C15: as long as the closed flag of an open SerialReader is not set, the
\* device handle, the device descriptor and both ends of the wakeup pipe are
\* open, whatever Close, ReadLine, ReadLinesLoop and WriteLine calls are under
\* way.
C15_OpenUntilClosed ==
    (obj = "open" /\ ~done) =>
        /\ ~fileClosed
        /\ \A f \in Fds : fdOpen[f]

\* A Close call has entered the teardown and not yet set the flag, while a
\* read call waits and a WriteLine has been made.
C15_Witness ==
    /\ obj = "open" /\ ~done
    /\ \E c \in Closers : cpc[c] = "done"
    /\ rpc = "wait"
    /\ wcalls > 0
    /\ ~fileClosed /\ \A f \in Fds : fdOpen[f]

\* C16: the teardown of the effective Close runs in the order closed flag,
\* wakeup byte, device handle, device descriptor, wakeup read end, wakeup
\* write end, and the state follows it: the flag is set from the first step
\* on, the byte is in the pipe after the second while the handle and all three
\* descriptors are still open, the handle is closed from the third step on,
\* the read end from the fifth and the write end from the sixth.
C16_TeardownOrder ==
    LET n == Len(tlog)
    IN  /\ IsPrefix(tlog, TeardownSteps)
        /\ obj = "open" =>
               /\ done <=> n >= 1
               /\ n < 2 => pipeBuf = 0
               /\ n = 2 => (pipeBuf = 1 /\ ~fileClosed /\ \A f \in Fds : fdOpen[f])
               /\ fileClosed <=> n >= 3
               /\ n >= 4 => ~fdOpen["fd"]
               /\ fdOpen["pipeR"] <=> n < 5
               /\ fdOpen["pipeW"] <=> n < 6
        /\ \A b \in sysBad : ~(b.call = "write" /\ b.fd = "pipeW")

\* The wakeup byte has just been written, into a pipe with both ends open, while
\* a read call waits.
C16_Witness ==
    /\ tlog = <<"done", "wake">>
    /\ pipeBuf = 1
    /\ fdOpen["pipeR"] /\ fdOpen["pipeW"]
    /\ rpc = "wait"

\* C17: a WriteLine step made while ReadLinesLoop runs changes neither the
\* loop's accumulation buffer, nor what it has read or delivered, nor the
\* pending device input, the closed flag or the wakeup pipe; the lines
\* delivered remain the delimiter-terminated lines of the bytes read; and the
\* bytes of a WriteLine that returned nil are what the peer received, in order.
C17_WriteLineFrame ==
    /\ [][wcalls' # wcalls =>
             UNCHANGED <<line, calls, consumed, devBuf, done, pipeBuf, fdOpen, rpc>>]_vars
    /\ [](rop = "ReadLinesLoop" =>
             IF rpc = "frame"
             THEN IsPrefix(LineArgs, CompleteLines(consumed, config.Delimiter))
             ELSE LineArgs = CompleteLines(consumed, config.Delimiter))
    /\ [](wlast.err = "nil" =>
             peerIn = wlast.pre \o wlast.payload \o wlast.newline)

\* A WriteLine was made while the loop held the start of a line; its bytes
\* arrived, and the loop has since delivered that line whole.
C17_Witness ==
    /\ wlast.err = "nil" /\ wlast.midLine
    /\ peerIn = <<"a", "n">>
    /\ rop = "ReadLinesLoop"
    /\ LineArgs = << <<"a">> >>

\* C18: the speed Open programs into the device is the rate constant of the
\* configured baud rate when that is one of 9600, 19200, 38400, 57600, 115200
\* and 230400, each to its own constant, and the constant of 115200 for every
\* other integer; Open reports no error for any of them.
C18_BaudMapping ==
    obj = "open" =>
        LET b == config.BaudRate
            speed == termios \cap CBAUD
        IN  /\ openErr = "nil"
            /\ b = 9600 => speed = {"B9600"}
            /\ b = 19200 => speed = {"B19200"}
            /\ b = 38400 => speed = {"B38400"}
            /\ b = 57600 => speed = {"B57600"}
            /\ b = 115200 => speed = {"B115200"}
            /\ b = 230400 => speed = {"B230400"}
            /\ b \notin SupportedBauds => speed = {"B115200"}

\* Open succeeded with an unsupported rate, and with the highest supported one.
C18_Witness ==
    /\ obj = "open"
    /\ config.BaudRate = 0
    /\ "B115200" \in termios

\* C19: when ReadLine returns an error while the closed flag is set, with a
\* peer that is still there and no failure of the operating system, it
\* returns the empty string and the error "serialreader closed"; and a
\* post-wait check that finds the flag set returns without a device read.
C19_ClosedErrorOnly ==
    [][(rop = "ReadLine" /\ ReaderActive /\ rpc' = "ret" /\ done
        /\ peer = "open" /\ faults = 0) =>
          /\ rret'.err # "nil" => rret' = [line |-> <<>>, err |-> ClosedErr]
          /\ rpc = "chk" => (rret'.err = ClosedErr /\ devBuf' = devBuf)]_vars

\* What follows the last delimiter of s, the delimiters taken from left to
\* right without overlap; all of s when it holds none.
RECURSIVE RestFrom(_, _, _, _)
RestFrom(s, d, i, start) ==
    IF i + Len(d) > Len(s) THEN SubSeq(s, start + 1, Len(s))
    ELSE IF IsAt(s, d, i)
         THEN RestFrom(s, d, i + Len(d), i + Len(d))
         ELSE RestFrom(s, d, i + 1, start)
Residual(s, d) == RestFrom(s, d, 0, 0)

\* C20: whenever ReadLinesLoop, with a non-empty delimiter, is about to wait
\* or waits for readiness, its accumulation buffer is what this invocation
\* has read after the last delimiter, it holds no delimiter, and every line
\* completed so far, however its bytes were spread over the reads, has been
\* delivered once.
C20_BufferAtWait ==
    (rop = "ReadLinesLoop" /\ config.Delimiter # <<>> /\ rpc \in {"poll", "wait"}) =>
        /\ line = Residual(consumed, config.Delimiter)
        /\ ~Contains(line, config.Delimiter)
        /\ LineArgs = CompleteLines(consumed, config.Delimiter)
        /\ Len(consumed) = Len(line) + Len(LineArgs) * Len(config.Delimiter)
                              + Len(FlatLines)

\* The loop waits with a line begun and half a delimiter behind it, after it
\* has delivered an earlier line that took more than one read.
C20_Witness ==
    /\ rop = "ReadLinesLoop" /\ rpc = "wait"
    /\ config.Delimiter = CRLF
    /\ consumed = <<"r", "n", "a", "r">>
    /\ line = <<"a", "r">>
    /\ LineArgs = << <<>> >>

\* C21: a ReadLinesLoop that was running when a Close call returned makes no
\* further callback: from the return of Close on, no step of that loop adds
\* an onLine or an onError invocation.
C21_NoCallbackAfterClose ==
    [][(rop = "ReadLinesLoop" /\ ReaderActive /\ ~rAfterClose /\ closeReturned > 0) =>
          calls' = calls]_vars

\* C22: the extraction loop of ReadLinesLoop ends for every delimiter, the
\* empty one included: a round that delivers a line and stays in the loop
\* leaves a shorter accumulation buffer behind, so that after finitely many
\* rounds no delimiter is found and the loop goes back to wait.
C22_ExtractionEnds ==
    [][(rop = "ReadLinesLoop" /\ rpc = "frame" /\ rpc' = "frame" /\ calls' # calls) =>
          Len(line') < Len(line)]_vars

\* C23: a failed Open has closed again every descriptor it had opened: the
\* device descriptor and both ends of the wakeup pipe are closed when Open has
\* returned an error.
C23_FailedOpenClosesAll ==
    obj = "failed" => \A f \in Fds : ~fdOpen[f]

====
